---- MODULE Spec2Model ----
(***************************************************************************)
(* Model of the mem0-mcp tool server (src/src/index.ts): the tool-call     *)
(* handler registered by createServer, its two adapter wrappers            *)
(* (addMemory, searchMemories) and the text helpers the handler uses to    *)
(* shape search results.                                                   *)
(*                                                                         *)
(* Encoding of JavaScript values:                                          *)
(*   - an optional value is a sequence of length 0 (undefined) or 1;       *)
(*   - a memory text is a sequence of one-character strings, so that the   *)
(*     regular expressions of normalizeOneLine act on characters;          *)
(*   - a finite number is a rational [n, d]; scores handed back by the     *)
(*     store are multiples of 1/ScoreDen with ScoreDen a power of two, so  *)
(*     they are exactly representable doubles and toFixed is exact;        *)
(*   - a text produced by the handler is a TLA+ string.                    *)
(***************************************************************************)
EXTENDS Integers, Sequences, FiniteSets, TLC

VARIABLES
    config,         \* the config object handed to createServer
    defaultUserId,  \* const defaultUserId of createServer
    inv,            \* per invocation of the tool-call handler: its progress
    calls           \* per invocation: the memoryClient calls it has issued

vars == <<config, defaultUserId, inv, calls>>

----------------------------------------------------------------------------
(* Bounds *)

MaxLen == 3          \* longest memory text enumerated character by character
MaxResults == 6      \* longest search result list
NConc == 2           \* overlapping invocations in the concurrent specification

----------------------------------------------------------------------------
(* JavaScript values *)

Undefined == <<>>
Some(v) == <<v>>
IsDefined(o) == o # <<>>
Val(o) == o[1]

\* Truthiness of an optional string: undefined and '' are falsy.
TruthyStr(o) == IsDefined(o) /\ Val(o) # ""

\* Truthiness of an optional boolean.
TruthyBool(o) == IsDefined(o) /\ Val(o)

\* Field values of a record returned by the store (memory, score).
\*   t = "undef" | "null" | "str" | "num"
\*   c : characters of a string value; s : an atomic string value
\*   n, d : numerator and denominator of a number value
JsUndef == [t |-> "undef", c |-> <<>>, s |-> "", n |-> 0, d |-> 1]
JsNull == [t |-> "null", c |-> <<>>, s |-> "", n |-> 0, d |-> 1]
JsChars(c) == [t |-> "str", c |-> c, s |-> "", n |-> 0, d |-> 1]
JsStr(s) == [t |-> "str", c |-> <<>>, s |-> s, n |-> 0, d |-> 1]
JsNum(n, d) == [t |-> "num", c |-> <<>>, s |-> "", n |-> n, d |-> d]
JsNaN == [t |-> "nan", c |-> <<>>, s |-> "", n |-> 0, d |-> 1]

\* v ?? dflt dropped: the value is used as it is.
Coalesce_none(v, dflt) == v

\* v ?? dflt
Coalesce(v, dflt) == IF v.t \in {"undef", "null"} THEN dflt ELSE v

\* An element of the result list: null, or an object with two fields.
NullRecord == [t |-> "null", memory |-> JsUndef, score |-> JsUndef]
Record(m, sc) == [t |-> "obj", memory |-> m, score |-> sc]

\* r?.memory and r?.score
MemoryOf(r) == IF r.t = "null" THEN JsUndef ELSE r.memory
ScoreOf(r) == IF r.t = "null" THEN JsUndef ELSE r.score

RECURSIVE Flatten(_)
\* The string made of a sequence of characters.
Flatten(cs) == IF cs = <<>> THEN "" ELSE Head(cs) \o Flatten(Tail(cs))

Digit(k) ==
    CASE k = 0 -> "0" [] k = 1 -> "1" [] k = 2 -> "2" [] k = 3 -> "3"
      [] k = 4 -> "4" [] k = 5 -> "5" [] k = 6 -> "6" [] k = 7 -> "7"
      [] k = 8 -> "8" [] k = 9 -> "9"

RECURSIVE NatToString(_)
NatToString(k) ==
    IF k < 10 THEN Digit(k) ELSE NatToString(k \div 10) \o Digit(k % 10)

RECURSIVE Pow10(_)
Pow10(p) == IF p = 0 THEN 1 ELSE 10 * Pow10(p - 1)

RECURSIVE FractionDigits(_, _)
\* The digits of f / 10^p after the decimal point, trailing zeros dropped.
FractionDigits(f, p) ==
    IF f = 0 THEN ""
    ELSE Digit(f \div Pow10(p - 1)) \o FractionDigits(f % Pow10(p - 1), p - 1)

Abs(k) == IF k < 0 THEN 0 - k ELSE k

\* Number.prototype.toString of n / 10^p (the shortest decimal that reads
\* back as the same double: no trailing zeros, no sign on zero).
NumberToString(n, p) ==
    LET a == Abs(n)
        whole == a \div Pow10(p)
        frac == a % Pow10(p)
    IN  (IF n < 0 THEN "-" ELSE "")
        \o NatToString(whole)
        \o (IF frac = 0 THEN "" ELSE "." \o FractionDigits(frac, p))

\* String(v) for a memory field value, as characters.
ToStringChars(v) ==
    CASE v.t = "str" -> v.c
      [] v.t = "null" -> <<"n", "u", "l", "l">>
      [] OTHER -> <<"u", "n", "d", "e", "f", "i", "n", "e", "d">>

\* Number(v)
ToNumber(v) ==
    CASE v.t = "num" -> v
      [] v.t = "null" -> JsNum(0, 1)
      [] v.t = "str" /\ v.s = "" /\ v.c = <<>> -> JsNum(0, 1)
      [] v.t = "str" /\ v.s = "0.5" -> JsNum(1, 2)
      [] OTHER -> JsNaN

\* Number.isFinite
IsFinite(v) == v.t = "num"

\* num.toFixed(p) read back by Number(): the multiple of 10^-p nearest to
\* the exact value, the larger one on a tie, the sign set aside first.
ToFixed(num, p) ==
    LET a == Abs(num.n)
        q == (2 * a * Pow10(p) + num.d) \div (2 * num.d)
    IN  JsNum(IF num.n < 0 THEN 0 - q ELSE q, Pow10(p))

RECURSIVE Log10(_)
Log10(d) == IF d < 10 THEN 0 ELSE 1 + Log10(d \div 10)

\* `${v}` for the value round() hands back (a number n / 10^p, or the
\* argument of round() itself).
Interpolate(v) ==
    CASE v.t = "num" -> NumberToString(v.n, Log10(v.d))
      [] v.t = "str" -> v.s
      [] v.t = "null" -> "null"
      [] v.t = "nan" -> "NaN"
      [] OTHER -> "undefined"

----------------------------------------------------------------------------
(* Helpers of index.ts *)

CRLFTab == {"\r", "\n", "\t"}
Whitespace == {" ", "\r", "\n", "\t", "\f"}

RECURSIVE DropWhile(_, _)
DropWhile(cs, W) ==
    IF cs # <<>> /\ Head(cs) \in W THEN DropWhile(Tail(cs), W) ELSE cs

RECURSIVE ReplaceRuns(_, _)
\* s.replace(/[W]+/g, ' '): every maximal run of characters of W becomes
\* one space.
ReplaceRuns(cs, W) ==
    IF cs = <<>> THEN <<>>
    ELSE IF Head(cs) \in W
         THEN <<" ">> \o ReplaceRuns(DropWhile(Tail(cs), W), W)
         ELSE <<Head(cs)>> \o ReplaceRuns(Tail(cs), W)

RECURSIVE DropTrailing(_, _)
DropTrailing(cs, W) ==
    IF cs # <<>> /\ cs[Len(cs)] \in W
    THEN DropTrailing(SubSeq(cs, 1, Len(cs) - 1), W)
    ELSE cs

\* String.prototype.trim
Trim(cs) == DropTrailing(DropWhile(cs, Whitespace), Whitespace)

\* normalizeOneLine without its final trim().
normalizeOneLine_noTrim(cs) ==
    ReplaceRuns(ReplaceRuns(cs, CRLFTab), Whitespace)

normalizeOneLine(cs) ==
    Trim(ReplaceRuns(ReplaceRuns(cs, CRLFTab), Whitespace))

round(n, p) ==
    LET num == ToNumber(n)
    IN  IF IsFinite(num) THEN ToFixed(num, p) ELSE n

----------------------------------------------------------------------------
(* Tool catalog and results *)

ADD_MEMORY_TOOL == [name |-> "add-memory", required |-> {"content", "userId"}]
SEARCH_MEMORIES_TOOL == [name |-> "search-memories", required |-> {"query", "userId"}]

\* The object every branch of the handler returns.
ToolResult(text, isError) ==
    [content |-> <<[type |-> "text", text |-> text]>>, isError |-> isError]

NoResult == [content |-> <<>>, isError |-> FALSE]

\* How a piece of code ends: by returning a value or by throwing an Error.
Return(v) == [kind |-> "return", value |-> v, message |-> ""]
Throw(msg, v) == [kind |-> "throw", value |-> v, message |-> msg]
Pending == [kind |-> "none", value |-> NoResult, message |-> ""]

\* What memoryClient.add / memoryClient.search does once awaited.
NoOutcome == [kind |-> "none", list |-> <<>>, message |-> ""]
Resolved == [kind |-> "ok", list |-> <<>>, message |-> ""]
Rejected(msg) == [kind |-> "raise", list |-> <<>>, message |-> msg]
NonList == [kind |-> "nonlist", list |-> <<>>, message |-> ""]
List(rs) == [kind |-> "list", list |-> rs, message |-> ""]

----------------------------------------------------------------------------
(* createServer *)

FallbackUserId == "mem0-mcp-user"

\* const defaultUserId = config.userId || 'mem0-mcp-user'
createServer(cfg) ==
    IF TruthyStr(cfg.userId) THEN Val(cfg.userId) ELSE FallbackUserId

\* userId || defaultUserId with the request's own user id ignored.
ResolveUserId_shared(userId, dflt) == dflt

\* userId || defaultUserId
ResolveUserId(userId, dflt) ==
    IF TruthyStr(userId) THEN Val(userId) ELSE dflt

\* The messages addMemory builds.
Messages(content) ==
    << [role |-> "system", content |-> Some("Memory storage system")],
       [role |-> "user", content |-> content] >>

AddCall(content, userId, dflt) ==
    [op |-> "add", messages |-> Messages(content), query |-> Undefined,
     user_id |-> ResolveUserId(userId, dflt)]

SearchCall(query, userId, dflt) ==
    [op |-> "search", messages |-> <<>>, query |-> query,
     user_id |-> ResolveUserId(userId, dflt)]

\* addMemory without its try/catch: a failure of add propagates.
addMemory_rethrow(outcome) ==
    IF outcome.kind = "raise" THEN Throw(outcome.message, FALSE) ELSE Return(TRUE)

\* addMemory after its await: true, or false from its catch block.
addMemory(outcome) ==
    IF outcome.kind = "raise" THEN Return(FALSE) ELSE Return(TRUE)

\* searchMemories without its try/catch: a failure of search propagates.
searchMemories_rethrow(outcome) ==
    IF outcome.kind = "raise" THEN Throw(outcome.message, outcome) ELSE Return(outcome)

\* searchMemories after its await: the results, or [] from its catch block.
searchMemories(outcome) ==
    IF outcome.kind = "raise" THEN Return(List(<<>>)) ELSE Return(outcome)

----------------------------------------------------------------------------
(* The tool-call handler *)

EmptyArgs ==
    Some([content |-> Undefined, userId |-> Undefined,
          query |-> Undefined, returnAll |-> Undefined])

\* !args widened to reject an empty mapping too.
ArgsMissing_orEmpty(args) == args = Undefined \/ args = EmptyArgs

\* !args
ArgsMissing(args) == args = Undefined

\* The handler without its try/catch.
CatchAll_rethrow(c) == c

\* catch (error) { return { ..., isError: true } }
CatchAll(c) ==
    IF c.kind = "throw"
    THEN Return(ToolResult("Error: " \o c.message, TRUE))
    ELSE c

\* default: branch throwing instead of returning.
UnknownTool_thrown(name) == Throw("Unknown tool: " \o name, NoResult)

\* default: branch of the switch
UnknownTool(name) == Return(ToolResult("Unknown tool: " \o name, TRUE))

\* case 'add-memory', after await addMemory(content, userId)
AddMemoryCase(added) ==
    IF added.kind = "throw"
    THEN Throw(added.message, NoResult)
    ELSE Return(ToolResult("Memory added successfully", FALSE))

\* One entry of the returnAll listing.
FormatEntry(r) ==
    LET mem == normalizeOneLine(ToStringChars(Coalesce(MemoryOf(r), JsChars(<<>>))))
        score == round(Coalesce(ScoreOf(r), JsNum(0, 1)), 3)
    IN  Flatten(mem) \o " (relevance: " \o Interpolate(score) \o ")"

\* results.slice(0, k) left out.
Slice_all(rs, k) == rs

\* results.slice(0, k)
Slice(rs, k) == SubSeq(rs, 1, IF Len(rs) < k THEN Len(rs) ELSE k)

\* results.map(FormatEntry)
MapEntries(rs) == [j \in 1..Len(rs) |-> FormatEntry(rs[j])]

RECURSIVE Join(_, _)
\* Array.prototype.join
Join(ts, sep) ==
    IF ts = <<>> THEN ""
    ELSE IF Len(ts) = 1 THEN ts[1]
    ELSE ts[1] \o sep \o Join(Tail(ts), sep)

TopN == 5

\* if (returnAll) { ... }
FormatAll(rs) ==
    LET formatted == Join(MapEntries(Slice(rs, TopN)), "; ")
    IN  ToolResult(IF formatted = "" THEN "No memories found" ELSE formatted, FALSE)

\* Default: the most relevant memory only.
FormatTop(rs) ==
    LET topResult == rs[1]
        memory == Flatten(normalizeOneLine(
                      ToStringChars(Coalesce(MemoryOf(topResult), JsChars(<<>>)))))
    IN  ToolResult(IF memory = "" THEN "No relevant memory found" ELSE memory, FALSE)

\* case 'search-memories', after await searchMemories(query, userId)
SearchMemoriesCase(found, returnAll) ==
    IF found.kind = "throw"
    THEN Throw(found.message, NoResult)
    ELSE LET results == found.value
         IN  IF results.kind # "list" \/ Len(results.list) = 0
             THEN Return(ToolResult("No memories found", FALSE))
             ELSE IF TruthyBool(returnAll)
                  THEN Return(FormatAll(results.list))
                  ELSE Return(FormatTop(results.list))

----------------------------------------------------------------------------
(* State machine *)

NoRequest == [name |-> "", args |-> Undefined]

IdleInvocation ==
    [pc |-> "idle", request |-> NoRequest, adapter |-> NoOutcome, completion |-> Pending]

Slots == DOMAIN inv

Args(i) == Val(inv[i].request.args)

\* createServer({config}) has run and no request has arrived yet.
InitWith(cfgs, slots) ==
    /\ config \in cfgs
    /\ defaultUserId = createServer(config)
    /\ inv = [i \in slots |-> IdleInvocation]
    /\ calls = [i \in slots |-> <<>>]

\* The handler ends with completion c.
Finish(i, req, c) ==
    /\ inv' = [inv EXCEPT ![i] = [pc |-> "done", request |-> req,
                                  adapter |-> NoOutcome, completion |-> c]]
    /\ UNCHANGED calls

\* The handler reaches an await on memoryClient, having issued call.
Await(i, req, pc, call) ==
    /\ inv' = [inv EXCEPT ![i] = [pc |-> pc, request |-> req,
                                  adapter |-> NoOutcome, completion |-> Pending]]
    /\ calls' = [calls EXCEPT ![i] = Append(@, call)]

\* A tools/call request arrives: the handler runs up to its first await.
Invoke(i, req) ==
    /\ inv[i].pc = "idle"
    /\ IF ArgsMissing(req.args)
       THEN Finish(i, req, CatchAll(Throw("No arguments provided", NoResult)))
       ELSE LET args == Val(req.args)
            IN  CASE req.name = ADD_MEMORY_TOOL.name ->
                       Await(i, req, "awaitAdd",
                             AddCall(args.content, args.userId, defaultUserId))
                  [] req.name = SEARCH_MEMORIES_TOOL.name ->
                       Await(i, req, "awaitSearch",
                             SearchCall(args.query, args.userId, defaultUserId))
                  [] OTHER -> Finish(i, req, CatchAll(UnknownTool(req.name)))
    /\ UNCHANGED <<config, defaultUserId>>

\* memoryClient.add settles and the handler runs to its end.
AddSettles(i, outcome) ==
    /\ inv[i].pc = "awaitAdd"
    /\ inv' = [inv EXCEPT ![i].pc = "done",
                          ![i].adapter = outcome,
                          ![i].completion = CatchAll(AddMemoryCase(addMemory(outcome)))]
    /\ UNCHANGED <<config, defaultUserId, calls>>

\* memoryClient.search settles and the handler runs to its end.
SearchSettles(i, outcome) ==
    /\ inv[i].pc = "awaitSearch"
    /\ inv' = [inv EXCEPT ![i].pc = "done",
                          ![i].adapter = outcome,
                          ![i].completion =
                              CatchAll(SearchMemoriesCase(searchMemories(outcome),
                                                          Args(i).returnAll))]
    /\ UNCHANGED <<config, defaultUserId, calls>>

----------------------------------------------------------------------------
(* Inputs *)

ScoreDen == 16       \* scores handed back by the store are multiples of 1/ScoreDen

Alphabet == {"a", "b", " ", "\n", "\t"}

Strings(n) == UNION {[1..k -> Alphabet] : k \in 0..n}

MemoryValues == {JsUndef, JsNull} \cup {JsChars(c) : c \in Strings(MaxLen)}

ScoreValues ==
    {JsUndef, JsNull, JsStr("high"), JsStr(""), JsStr("0.5")}
        \cup {JsNum(k, ScoreDen) : k \in {0 - 1, 0, 1, 8, 14, 16, 19}}

\* Three records that differ in memory and in score, to tell positions apart.
Sample1 == Record(JsChars(<<"a", "\n", "\n", "b">>), JsNum(14, ScoreDen))
Sample2 == Record(JsChars(<<"b">>), JsNum(8, ScoreDen))
Sample3 == NullRecord
Samples == {Sample1, Sample2, Sample3}

ResultLists ==
    UNION {[1..k -> Samples] : k \in 0..MaxResults}
        \cup {<<Record(m, JsNum(8, ScoreDen))>> \o rest :
                 m \in MemoryValues, rest \in {<<>>, <<Sample1>>}}
        \cup {<<Record(JsChars(<<"a">>), sc)>> \o rest :
                 sc \in ScoreValues, rest \in {<<>>, <<Sample2>>}}

Configs == {[apiKey |-> "key", userId |-> u] : u \in {Undefined, Some(""), Some("team")}}

\* The config main() builds for standalone execution.
StandaloneConfig == [apiKey |-> "key", userId |-> Some("mem0-mcp-user")]

ToolNames == {"add-memory", "search-memories", "delete-memory"}

ArgsOver(contents, userIds, queries, flags) ==
    {Some([content |-> c, userId |-> u, query |-> q, returnAll |-> f]) :
        c \in contents, u \in userIds, q \in queries, f \in flags}

Requests ==
    [name : ToolNames,
     args : {Undefined}
              \cup ArgsOver({Undefined, Some(""), Some("likes tea")},
                            {Undefined, Some(""), Some("alice")},
                            {Undefined, Some("tea")},
                            {Undefined, Some(TRUE), Some(FALSE)})]

AddOutcomes == {Resolved, Rejected("network down")}

SearchOutcomes ==
    {Rejected("network down"), NonList} \cup {List(rs) : rs \in ResultLists}

\* The overlapping invocations differ in tool and in user id only.
ConcRequests ==
    [name : ToolNames,
     args : {Undefined}
              \cup ArgsOver({Some("likes tea")},
                            {Undefined, Some(""), Some("alice"), Some("bob")},
                            {Some("tea")},
                            {Undefined})]

ConcSearchOutcomes == {Rejected("network down"), List(<<>>), List(<<Sample2>>)}

----------------------------------------------------------------------------
(* Specifications *)

\* One invocation of the standalone server, every request and every adapter
\* outcome.
Init == InitWith({StandaloneConfig}, {1})

Next ==
    \/ \E i \in Slots, req \in Requests : Invoke(i, req)
    \/ \E i \in Slots, outcome \in AddOutcomes : AddSettles(i, outcome)
    \/ \E i \in Slots, outcome \in SearchOutcomes : SearchSettles(i, outcome)

Spec == Init /\ [][Next]_vars

\* NConc invocations in flight at once, interleaved at their awaits.
InitConc == InitWith(Configs, 1..NConc)

NextConc ==
    \/ \E i \in Slots, req \in ConcRequests : Invoke(i, req)
    \/ \E i \in Slots, outcome \in AddOutcomes : AddSettles(i, outcome)
    \/ \E i \in Slots, outcome \in ConcSearchOutcomes : SearchSettles(i, outcome)

SpecConc == InitConc /\ [][NextConc]_vars

----------------------------------------------------------------------------
(* Vocabulary of the properties *)

Done(i) == inv[i].pc = "done"
Started(i) == inv[i].pc # "idle"
ToolName(i) == inv[i].request.name
HasArgs(i) == inv[i].request.args # Undefined
Returned(i) == inv[i].completion.kind = "return"
ResultOf(i) == inv[i].completion.value
Adapter(i) == inv[i].adapter

\* The invocation returned exactly one text block carrying text, and flag.
ReturnedText(i, text, flag) ==
    /\ Returned(i)
    /\ ResultOf(i).isError = flag
    /\ Len(ResultOf(i).content) = 1
    /\ ResultOf(i).content[1].type = "text"
    /\ ResultOf(i).content[1].text = text

IsSearch(i) == Done(i) /\ HasArgs(i) /\ ToolName(i) = "search-memories"

\* A search that handed back a list of at least one record.
FoundSome(i) ==
    IsSearch(i) /\ Adapter(i).kind = "list" /\ Len(Adapter(i).list) >= 1

Min(a, b) == IF a < b THEN a ELSE b

\* The characters of a record's memory text ('' when the record is null or
\* its memory is absent or null).
MemoryChars(r) ==
    IF r.t = "obj" /\ r.memory.t = "str" THEN r.memory.c ELSE <<>>

ScoreAbsent(r) == r.t = "null" \/ r.score.t \in {"undef", "null"}

\* A text is on one line: no line break or tab, no space at either end, no
\* two spaces in a row.
OneLine(cs) ==
    /\ \A k \in 1..Len(cs) : cs[k] \in Alphabet \ {"\n", "\t", "\r", "\f"}
    /\ cs # <<>> => cs[1] # " " /\ cs[Len(cs)] # " "
    /\ \A k \in 1..(Len(cs) - 1) : ~(cs[k] = " " /\ cs[k + 1] = " ")

IsInk(c) == c \notin {" ", "\n", "\t", "\r", "\f"}

----------------------------------------------------------------------------
(* C1 *)

\* C1: a finished invocation has always returned, never thrown: its result
\* has at least one content block, every block of type "text", and a boolean
\* isError -- whatever the tool name, the arguments and the adapter outcome.
C1_NeverThrows ==
    \A i \in Slots :
        Done(i) =>
            /\ Returned(i)
            /\ Len(ResultOf(i).content) >= 1
            /\ \A k \in 1..Len(ResultOf(i).content) :
                   ResultOf(i).content[k].type = "text"
            /\ ResultOf(i).isError \in BOOLEAN

\* The one throw statement of the handler has run and has been contained.
C1_Witness ==
    \E i \in Slots :
        Done(i) /\ ~HasArgs(i) /\ Returned(i) /\ ResultOf(i).isError

----------------------------------------------------------------------------
(* C2 *)

\* C2: a finished add-memory invocation whose arguments have no content, and
\* a finished search-memories invocation whose arguments have no query,
\* returned isError = true with a single text block.
C2_MissingRequiredIsError ==
    \A i \in Slots :
        (/\ Done(i)
         /\ HasArgs(i)
         /\ \/ ToolName(i) = "add-memory" /\ Args(i).content = Undefined
            \/ ToolName(i) = "search-memories" /\ Args(i).query = Undefined)
        => /\ Returned(i)
           /\ ResultOf(i).isError = TRUE
           /\ Len(ResultOf(i).content) = 1

----------------------------------------------------------------------------
(* C3 *)

----------------------------------------------------------------------------
(* C4 *)

\* C4: an invocation with arguments present whose tool name is neither
\* "add-memory" nor "search-memories" returns (does not throw) isError = true
\* with the single text "Unknown tool: <toolName>", and calls neither add
\* nor search.
C4_UnknownTool ==
    \A i \in Slots :
        (/\ Started(i)
         /\ HasArgs(i)
         /\ ToolName(i) \notin {"add-memory", "search-memories"})
        => /\ Done(i)
           /\ ReturnedText(i, "Unknown tool: " \o ToolName(i), TRUE)
           /\ calls[i] = <<>>

C4_Witness ==
    \E i \in Slots :
        /\ Done(i)
        /\ ToolName(i) = "delete-memory"
        /\ HasArgs(i)
        /\ TruthyStr(Args(i).content)

----------------------------------------------------------------------------
(* C5 *)

\* C5: an add-memory invocation with non-empty content and userId calls the
\* adapter's add exactly once, with the system message "Memory storage
\* system" followed by the user message carrying content as given, and
\* returns isError = false with "Memory added successfully" whether add
\* succeeded or raised.
C5_AddAlwaysConfirms ==
    \A i \in Slots :
        (/\ Started(i)
         /\ HasArgs(i)
         /\ ToolName(i) = "add-memory"
         /\ TruthyStr(Args(i).content)
         /\ TruthyStr(Args(i).userId))
        => /\ Len(calls[i]) = 1
           /\ calls[i][1].op = "add"
           /\ Len(calls[i][1].messages) = 2
           /\ calls[i][1].messages[1] =
                  [role |-> "system", content |-> Some("Memory storage system")]
           /\ calls[i][1].messages[2] =
                  [role |-> "user", content |-> Args(i).content]
           /\ Done(i) =>
                  /\ Adapter(i).kind \in {"ok", "raise"}
                  /\ ReturnedText(i, "Memory added successfully", FALSE)

\* add raised, and the invocation has finished.
C5_Witness ==
    \E i \in Slots :
        /\ Done(i)
        /\ HasArgs(i)
        /\ ToolName(i) = "add-memory"
        /\ TruthyStr(Args(i).content)
        /\ TruthyStr(Args(i).userId)
        /\ Adapter(i).kind = "raise"

----------------------------------------------------------------------------
(* C6 *)

\* C6: a search-memories invocation whose search raised or handed back an
\* empty list returns isError = false with exactly "No memories found",
\* for returnAll true, false and omitted alike.
C6_EmptyOrFailedSearch ==
    \A i \in Slots :
        (/\ IsSearch(i)
         /\ \/ Adapter(i).kind = "raise"
            \/ Adapter(i).kind = "list" /\ Adapter(i).list = <<>>)
        => ReturnedText(i, "No memories found", FALSE)

C6_Witness ==
    \E i \in Slots :
        /\ IsSearch(i)
        /\ Adapter(i).kind = "raise"
        /\ Args(i).returnAll = Some(TRUE)

----------------------------------------------------------------------------
(* C7 *)

\* The entry C7 gives for one record: its memory text on one line, then its
\* score rounded to 3 decimals (0 for an absent score).
C7_Entry(r) ==
    Flatten(normalizeOneLine(MemoryChars(r)))
        \o " (relevance: "
        \o Interpolate(round(IF ScoreAbsent(r) THEN JsNum(0, 1) ELSE r.score, 3))
        \o ")"

RECURSIVE C7_Listing(_, _)
\* The entries of records 1..k in that order, "; " between neighbours.
C7_Listing(rs, k) ==
    IF k = 1 THEN C7_Entry(rs[1])
    ELSE C7_Listing(rs, k - 1) \o "; " \o C7_Entry(rs[k])

----------------------------------------------------------------------------
(* C8 *)

\* C8: a search-memories invocation with returnAll false or omitted whose
\* search handed back at least one record returns isError = false and a
\* text fixed by the first record alone: that record's memory text on one
\* line (same visible characters in the same order, unchanged if it was on
\* one line already), with no score, or "No relevant memory found" when
\* nothing is left of it.
C8_TopOnly ==
    \A i \in Slots :
        (FoundSome(i) /\ Args(i).returnAll \in {Undefined, Some(FALSE)}) =>
            LET m == MemoryChars(Adapter(i).list[1])
                line == normalizeOneLine(m)
            IN  /\ OneLine(line)
                /\ SelectSeq(line, IsInk) = SelectSeq(m, IsInk)
                /\ OneLine(m) => line = m
                /\ ReturnedText(i, IF line = <<>> THEN "No relevant memory found"
                                                  ELSE Flatten(line), FALSE)

\* Two records came back, the first with a line break in its text, and
\* returnAll was omitted.
C8_Witness ==
    \E i \in Slots :
        /\ FoundSome(i)
        /\ Args(i).returnAll = Undefined
        /\ Len(Adapter(i).list) = 2
        /\ MemoryChars(Adapter(i).list[1]) = <<"a", "\n", "b">>
        /\ ReturnedText(i, "a b", FALSE)

----------------------------------------------------------------------------
(* C9 *)

\* The user id an invocation's request resolves to, given the config.
C9_OwnUserId(i) ==
    LET u == Args(i).userId
    IN  IF u # Undefined /\ u # Some("") THEN u[1]
        ELSE IF config.userId # Undefined /\ config.userId # Some("")
             THEN config.userId[1]
             ELSE "mem0-mcp-user"

\* C9: at every point of every interleaving, each adapter call carries the
\* user id resolved from the request of the invocation that issued it (the
\* request's userId when non-empty, otherwise the config's default, itself
\* "mem0-mcp-user" when the config gives none), and no step changes the
\* config or the default taken from it.
C9_UserIdIsolation ==
    /\ [](\A i \in Slots : \A k \in 1..Len(calls[i]) :
              calls[i][k].user_id = C9_OwnUserId(i))
    /\ [][config' = config /\ defaultUserId' = defaultUserId]_vars

\* Two invocations are in flight at once, one with its own user id and one
\* on the default.
C9_Witness ==
    \E i, j \in Slots :
        /\ inv[i].pc \in {"awaitAdd", "awaitSearch"}
        /\ inv[j].pc \in {"awaitAdd", "awaitSearch"}
        /\ Args(i).userId = Some("alice")
        /\ Args(j).userId \in {Undefined, Some("")}
        /\ calls[i][1].user_id = "alice"
        /\ calls[j][1].user_id = defaultUserId

----------------------------------------------------------------------------
(* C10 *)

\* A score that is present but does not convert to a finite number.
NotNumeric(r) == ~ScoreAbsent(r) /\ ToNumber(r.score).t # "num"

\* The entry C10 gives as stated: relevance 0 for an absent, null or
\* non-numeric score.
C10_EntryAsStated(r) ==
    Flatten(normalizeOneLine(MemoryChars(r)))
        \o " (relevance: "
        \o (IF ScoreAbsent(r) \/ NotNumeric(r) THEN "0"
            ELSE Interpolate(round(r.score, 3)))
        \o ")"

RECURSIVE C10_ListingAsStated(_, _)
C10_ListingAsStated(rs, k) ==
    IF k = 1 THEN C10_EntryAsStated(rs[1])
    ELSE C10_ListingAsStated(rs, k - 1) \o "; " \o C10_EntryAsStated(rs[k])

\* C10 as stated: in the returnAll = true rendering every record whose score
\* is absent, null or not a number is shown with relevance 0, and the
\* invocation returns isError = false.
C10_ScoreDefaultsToZero ==
    \A i \in Slots :
        (FoundSome(i) /\ Args(i).returnAll = Some(TRUE)) =>
            LET rs == Adapter(i).list
            IN  ReturnedText(i, C10_ListingAsStated(rs, Min(Len(rs), 5)), FALSE)

\* The entry C10 gives once amended: relevance 0 for an absent or null
\* score, the score's own text for a score that is not numeric.
C10_EntryAmended(r) ==
    Flatten(normalizeOneLine(MemoryChars(r)))
        \o " (relevance: "
        \o (IF ScoreAbsent(r) THEN "0"
            ELSE IF NotNumeric(r) THEN r.score.s
            ELSE Interpolate(round(r.score, 3)))
        \o ")"

RECURSIVE C10_ListingAmended(_, _)
C10_ListingAmended(rs, k) ==
    IF k = 1 THEN C10_EntryAmended(rs[1])
    ELSE C10_ListingAmended(rs, k - 1) \o "; " \o C10_EntryAmended(rs[k])

\* C10 amended: in the returnAll = true rendering a record whose score is
\* absent or null is shown with relevance 0, a record whose score does not
\* convert to a finite number is shown with that score as it is, and the
\* invocation returns isError = false.
C10_ScoreCoercion ==
    \A i \in Slots :
        (FoundSome(i) /\ Args(i).returnAll = Some(TRUE)) =>
            LET rs == Adapter(i).list
            IN  ReturnedText(i, C10_ListingAmended(rs, Min(Len(rs), 5)), FALSE)

\* A record without a score was rendered, in a list with another record.
C10_Witness ==
    \E i \in Slots :
        /\ FoundSome(i)
        /\ Args(i).returnAll = Some(TRUE)
        /\ Len(Adapter(i).list) = 2
        /\ Adapter(i).list[1].t = "obj"
        /\ Adapter(i).list[1].score.t = "undef"
        /\ ReturnedText(i, "a (relevance: 0); b (relevance: 0.5)", FALSE)

====
